---- MODULE Spec2Model ----
(***************************************************************************)
(* A model of pybuzzers' BuzzerSet (src/pybuzzers/BuzzerSet.py): the       *)
(* per-device session object, its background read loop, the dispatch of    *)
(* state changes to the four handler registries, the light commands and    *)
(* the close/reopen of stop_listening.  Python indices are kept as in the  *)
(* source (buzzer 0..3, button 0..4); TLA+ sequences are 1-based, so cell  *)
(* (buzzer, button) of a grid g is g[buzzer + 1][button + 1].              *)
(***************************************************************************)
EXTENDS Integers, Sequences, FiniteSets, TLC

(***************************************************************************)
(* Bounds of the model.                                                    *)
(***************************************************************************)
MaxReaders == 2   \* threads that start_listening may create
MaxReports == 2   \* reports the device delivers in one run
MaxRegs == 2      \* registration calls in one run
MaxStops == 1     \* stop_listening calls in one run
MaxLightCalls == 2 \* light-control calls in one run
MaxCalls == 3     \* BuzzerSet(path) calls in one run

(***************************************************************************)
(* Program constants.                                                      *)
(***************************************************************************)
NumBuzzers == 4
NumButtons == 5
LightOn == 255
LightOff == 0

(***************************************************************************)
(* Threads: the thread that calls the public methods, and the threads      *)
(* start_listening creates.                                                *)
(***************************************************************************)
NoThread == "nobody"
Ctl == "ctl"
ReaderNames == <<"r1", "r2", "r3", "r4">>
Readers == {ReaderNames[i] : i \in 1..MaxReaders}
Threads == {Ctl} \cup Readers

None == "None"
Kinds == <<"on_change", "on_button_down", "on_buzz", "on_button_up">>
KindSet == {Kinds[i] : i \in 1..Len(Kinds)}

(***************************************************************************)
(* __decode_state (lines 207-240).  data[2:5] of the source is             *)
(* data[3..5] here.  Every one of the three bytes is spread into 8 bits,   *)
(* least significant first, and 20 of the 24 bits are picked.  A report    *)
(* shorter than 5 bytes makes data[2:5] shorter than 3 bytes and the       *)
(* pick of bit 15..19 raises IndexError.                                   *)
(***************************************************************************)
Pow2(i) == IF i = 0 THEN 1 ELSE IF i = 1 THEN 2 ELSE IF i = 2 THEN 4
           ELSE IF i = 3 THEN 8 ELSE IF i = 4 THEN 16 ELSE IF i = 5 THEN 32
           ELSE IF i = 6 THEN 64 ELSE 128

\* bool(num & 2 ** i)
BitSet(num, i) == (num \div Pow2(i)) % 2 = 1

\* The slice data[2:5]: at most three bytes, fewer when the report is short.
Slice2to5(data) ==
    [k \in 1..(IF Len(data) >= 5 THEN 3 ELSE IF Len(data) <= 2 THEN 0 ELSE Len(data) - 2)
        |-> data[k + 2]]

\* [bool(num & 2 ** i) for num in data[2:5] for i in range(8)], 0-based index k
DecodeBits(data) ==
    [k \in 0..(8 * Len(Slice2to5(data)) - 1)
        |-> BitSet(Slice2to5(data)[(k \div 8) + 1], k % 8)]

DecodeRaises(data) == 8 * Len(Slice2to5(data)) < NumBuzzers * NumButtons

\* A variant that takes the five bits of a cluster in the order of the bits.
DecodeRowInOrder(bits, c) ==
    << bits[5 * c], bits[5 * c + 1], bits[5 * c + 2], bits[5 * c + 3], bits[5 * c + 4] >>

DecodeRow(bits, c) ==
    << bits[5 * c], bits[5 * c + 4], bits[5 * c + 3], bits[5 * c + 2], bits[5 * c + 1] >>

decode_state(data) ==
    [c \in 1..NumBuzzers |-> DecodeRow(DecodeBits(data), c - 1)]

AllFalse == [c \in 1..NumBuzzers |-> [b \in 1..NumButtons |-> FALSE]]

(***************************************************************************)
(* The reports the modelled device can deliver (bytes 0..255, 5 bytes).    *)
(*   Report0: nothing pressed.                                             *)
(*   ReportA: buzz of buzzer 0.                                            *)
(*   ReportB: buzz and button 4 of buzzer 0, buzz of buzzer 1.             *)
(*   ReportC: button 3 of buzzer 1 (bit 7), button 0 of buzzer 2 (bit 10), *)
(*            button 4 of buzzer 3 (bit 16).                               *)
(*   ReportN: only bits 20..23 set: decodes like Report0.                  *)
(***************************************************************************)
Report0 == <<0, 0, 0, 0, 0>>
ReportA == <<0, 0, 1, 0, 0>>
ReportB == <<0, 0, 35, 0, 0>>
ReportN == <<0, 0, 0, 0, 240>>
ReportC == <<0, 0, 0, 132, 1>>
Reports == {Report0, ReportA, ReportB, ReportC, ReportN}

(***************************************************************************)
(* Cells that changed between two grids, as __handle_event computes them   *)
(* (lines 251-254): lists of (buzzer, button), buzzer-major order.         *)
(***************************************************************************)
CellOrder ==
    [k \in 1..(NumBuzzers * NumButtons) |->
        << (k - 1) \div NumButtons, (k - 1) % NumButtons >>]

RECURSIVE FilterCells(_, _, _)
FilterCells(k, new, old) ==
    IF k > NumBuzzers * NumButtons THEN << >>
    ELSE LET c == CellOrder[k] IN
         (IF new[c[1] + 1][c[2] + 1] /\ ~old[c[1] + 1][c[2] + 1] THEN << c >> ELSE << >>)
            \o FilterCells(k + 1, new, old)

\* new_state[buzzer][button] and not old_state[buzzer][button]
ButtonDowns(new_state, old_state) == FilterCells(1, new_state, old_state)

\* not new_state[buzzer][button] and old_state[buzzer][button]
ButtonUps(new_state, old_state) == FilterCells(1, old_state, new_state)

\* A variant that takes the cell (0, 0) for falsy, as any() over its indices would.
AnyCellByIndex(cells) == \E k \in 1..Len(cells) : cells[k][1] # 0 \/ cells[k][2] # 0

\* any(list of tuples): a (buzzer, button) tuple is never empty, so it is truthy
AnyCell(cells) == \E k \in 1..Len(cells) : Len(cells[k]) > 0

\* line 255: if not any(button_ups) and not any(button_downs): return
NoChange(button_downs, button_ups) == ~AnyCell(button_ups) /\ ~AnyCell(button_downs)

(***************************************************************************)
(* A Python dict as CPython keeps it: an array of entries in insertion     *)
(* order; pop leaves a dummy entry (live = FALSE) behind, assignment to a  *)
(* present key replaces the value in place, assignment to an absent key    *)
(* appends.                                                                *)
(***************************************************************************)
EmptyDict == << >>

DictHas(d, label) == \E k \in 1..Len(d) : d[k].live /\ d[k].label = label

DictSize(d) == Cardinality({k \in 1..Len(d) : d[k].live})

DictSet(d, label, handler) ==
    IF DictHas(d, label)
    THEN [k \in 1..Len(d) |->
            IF d[k].live /\ d[k].label = label
            THEN [label |-> label, handler |-> handler, live |-> TRUE] ELSE d[k]]
    ELSE Append(d, [label |-> label, handler |-> handler, live |-> TRUE])

\* dict.pop(label, None)
DictPop(d, label) ==
    [k \in 1..Len(d) |->
        IF d[k].live /\ d[k].label = label
        THEN [label |-> label, handler |-> d[k].handler, live |-> FALSE] ELSE d[k]]

DictLabels(d) == {d[k].label : k \in {j \in 1..Len(d) : d[j].live}}

\* The iterator of dict.values(): position in the entry array, the size at
\* creation (di_used) and the number of items still to yield (len).
\* The iterator refers to the dict object: ref is "attr" while that object is
\* still the one the session's attribute names, and holds the object itself
\* once clear_handlers has bound the attribute to a new dict.
NewIter(d) == [pos |-> 1, used |-> DictSize(d), len |-> DictSize(d), ref |-> "attr", obj |-> << >>]
NoIter == [pos |-> 0, used |-> 0, len |-> 0, ref |-> "attr", obj |-> << >>]

\* Index of the first live entry at or after pos, 0 when there is none.
NextLive(d, pos) ==
    IF \E k \in pos..Len(d) : d[k].live
    THEN CHOOSE k \in pos..Len(d) : d[k].live /\ \A j \in pos..(k - 1) : ~d[j].live
    ELSE 0

\* next(iterator): "error" (RuntimeError: dictionary changed size / keys
\* changed during iteration), "stop" (exhausted) or "item".
IterOutcome(d, it) ==
    IF it.used # DictSize(d) THEN "error"
    ELSE IF NextLive(d, it.pos) = 0 THEN "stop"
    ELSE IF it.len = 0 THEN "error"
    ELSE "item"

(***************************************************************************)
(* State of one session (the object for one device path).                  *)
(*   interface   index into handles of the hid.device self.__interface     *)
(*   handles     every hid.device created so far: "new", "open", "closed"  *)
(*   ilock       holder of self.__interface_lock                           *)
(*   last_write  the last write issued: the handle and the bytes           *)
(*   nwrites     number of writes issued                                   *)
(*   state       self.__state                                              *)
(*   lights      self.__lights                                             *)
(*   handlers    the four registries, by name                              *)
(*   thread      self.__thread: the thread of the last start_listening     *)
(*   pc, loc     position and locals of every reader thread                *)
(*   call        the public method a thread is inside, if any              *)
(*   fired       per reader, the handlers called for the report it is      *)
(*               processing (or processed last), in order                  *)
(* History of the run, used to state the properties:                       *)
(*   stopped     a stop_listening has returned, no start_listening since   *)
(*   removed     labels whose remove_handler has returned                  *)
(*   lights_done the last light-control call that is over, and how it ended *)
(*   prev_state  self.__state as it was just before its last assignment    *)
(*   closed_under  the readers that were blocked in a read on the handle   *)
(*               when stop_listening closed it                             *)
(*   nreads, nregs, nstops, nlights   counters for the bounds              *)
(* The class and its construction calls:                                   *)
(*   existing_buzzer_sets   BuzzerSet.__existing_buzzer_sets               *)
(*   objects     every BuzzerSet instance created so far                   *)
(*   opens       per device path, the open_path calls that succeeded       *)
(*   ctor        per calling thread, the BuzzerSet(path) call it is in     *)
(*   results     what the calls that returned have returned                *)
(*   ncalls      counter for the bound                                     *)
(***************************************************************************)
VARIABLES interface, handles, ilock, last_write, nwrites,
          state, lights, handlers, thread,
          pc, loc, call, fired,
          stopped, removed, lights_done, prev_state, closed_under,
          nreads, nregs, nstops, nlights,
          existing_buzzer_sets, objects, opens, ctor, results, ncalls

devVars == << interface, handles, ilock, last_write, nwrites >>
sessVars == << state, lights, handlers, thread >>
rdVars == << pc, loc, fired >>
histVars == << stopped, removed, lights_done, prev_state, closed_under,
              nreads, nregs, nstops, nlights >>
runVars == << devVars, sessVars, rdVars, call, histVars >>
ctorVars == << existing_buzzer_sets, objects, opens, ctor, results, ncalls >>
vars == << runVars, ctorVars >>

Paths == {"hid0", "hid1"}
Callers == {"t1", "t2"}

\* No instance: a path that is not a key of __existing_buzzer_sets.
NoObject == 0
NoCtor == [at |-> "idle", path |-> "none", obj |-> NoObject, found |-> FALSE]

NoCall == [op |-> "none", at |-> "none", arg |-> << >>]
NoLoc == [h |-> 0, data |-> << >>, new_state |-> AllFalse, old_state |-> AllFalse,
          button_downs |-> << >>, button_ups |-> << >>, cell |-> 0, it |-> NoIter]

\* A variant that sends 1 for a light that is on.
LightCommandBit(l) ==
    << 0, 0 >> \o [i \in 1..Len(l) |-> IF l[i] THEN 1 ELSE LightOff] \o << 0, 0 >>

\* binLights = [0xFF if light else 0x00 for light in lights];
\* [0x0, 0x0, *binLights, 0x0, 0x0]
LightCommand(l) ==
    << 0, 0 >> \o [i \in 1..Len(l) |-> IF l[i] THEN LightOn ELSE LightOff] \o << 0, 0 >>

AllLights(v) == [i \in 1..NumBuzzers |-> v]

(***************************************************************************)
(* The state after BuzzerSet(path) has returned for a new path             *)
(* (__init__, lines 49-70): handle open, lights off and written, state     *)
(* all False, registries empty, no reader thread.                          *)
(***************************************************************************)
Init ==
    /\ interface = 1
    /\ handles = << "open" >>
    /\ ilock = NoThread
    /\ last_write = [h |-> 1, data |-> LightCommand(AllLights(FALSE))]
    /\ nwrites = 1
    /\ state = AllFalse
    /\ lights = AllLights(FALSE)
    /\ handlers = [k \in KindSet |-> EmptyDict]
    /\ thread = NoThread
    /\ pc = [r \in Readers |-> "unborn"]
    /\ loc = [r \in Readers |-> NoLoc]
    /\ call = [t \in Threads |-> NoCall]
    /\ fired = [r \in Readers |-> << >>]
    /\ stopped = FALSE
    /\ removed = {}
    /\ lights_done = NoCall
    /\ prev_state = AllFalse
    /\ closed_under = {}
    /\ nreads = 0
    /\ nregs = 0
    /\ nstops = 0
    /\ nlights = 0
    /\ existing_buzzer_sets = [p \in Paths |-> NoObject]
    /\ objects = << >>
    /\ opens = [p \in Paths |-> 0]
    /\ ctor = [c \in Callers |-> NoCtor]
    /\ results = {}
    /\ ncalls = 0

(***************************************************************************)
(* Handler registration (lines 92-174).  A callback is named by what its   *)
(* body does when it is called:                                            *)
(*   "obs"   returns                                                       *)
(*   "rm"    calls remove_handler with the label it is registered under    *)
(*   "stop"  calls stop_listening                                          *)
(*   "lights" calls set_lights_on                                          *)
(*   "get"   calls get_buttons_state                                       *)
(*   "raise" raises an exception that is not an OSError                    *)
(***************************************************************************)
Callbacks == {"obs", "rm", "stop", "lights", "get", "raise"}
LabelInputs == {None, "a", "b"}

\* str(handler)
Str(handler) == handler

\* label = label or str(handler)
EffectiveLabel(label, handler) ==
    IF label = None \/ label = "" THEN Str(handler) ELSE label

Labels == {EffectiveLabel(l, h) : l \in LabelInputs, h \in Callbacks}

Idle(t) == call[t].op = "none"

\* on_change / on_buzz / on_button_down / on_button_up
Register(kind, handler, label) ==
    /\ Idle(Ctl)
    /\ nregs < MaxRegs
    /\ handlers' = [handlers EXCEPT
                      ![kind] = DictSet(@, EffectiveLabel(label, handler), handler)]
    /\ removed' = removed \ {EffectiveLabel(label, handler)}
    /\ nregs' = nregs + 1
    /\ UNCHANGED << ctorVars, devVars, state, lights, thread, rdVars, call,
                    stopped, closed_under, lights_done, prev_state, nreads, nstops, nlights >>

\* remove_handler (lines 162-167): pop from all four registries
RemoveFrom(hs, label) == [k \in KindSet |-> DictPop(hs[k], label)]

\* The labels whose callback a returned remove_handler has taken out.
Registered(label) == \E k \in KindSet : DictHas(handlers[k], label)
Removed(label) == IF Registered(label) THEN removed \cup {label} ELSE removed

RemoveHandler(label) ==
    /\ Idle(Ctl)
    /\ handlers' = RemoveFrom(handlers, label)
    /\ removed' = Removed(label)
    /\ UNCHANGED << ctorVars, devVars, state, lights, thread, rdVars, call,
                    stopped, closed_under, lights_done, prev_state, nreads, nregs, nstops, nlights >>

\* clear_handlers (lines 169-174): four new, empty dicts.  An iterator of a
\* reader keeps the old dict, which nobody changes any more.
ClearHandlers ==
    /\ Idle(Ctl)
    /\ handlers' = [k \in KindSet |-> EmptyDict]
    /\ loc' = [r \in Readers |->
                 IF pc[r] \in KindSet /\ loc[r].it.ref = "attr"
                 THEN [loc[r] EXCEPT !.it.ref = "own", !.it.obj = handlers[pc[r]]]
                 ELSE loc[r]]
    /\ UNCHANGED << ctorVars, devVars, state, lights, thread, pc, fired, call, histVars >>

(***************************************************************************)
(* start_listening (lines 177-180): a new thread running __listen_loop.    *)
(***************************************************************************)
Unborn == {i \in 1..MaxReaders : pc[ReaderNames[i]] = "unborn"}
Active(r) == pc[r] \notin {"unborn", "done", "crashed"}

StartListening ==
    /\ Idle(Ctl)
    /\ Unborn # {}
    /\ LET r == ReaderNames[CHOOSE i \in Unborn : \A j \in Unborn : i <= j] IN
         /\ thread' = r
         /\ pc' = [pc EXCEPT ![r] = "loop"]
    /\ stopped' = FALSE
    /\ UNCHANGED << ctorVars, devVars, state, lights, handlers, loc, fired, call,
                    removed, lights_done, prev_state, closed_under,
                    nreads, nregs, nstops, nlights >>

(***************************************************************************)
(* stop_listening (lines 182-189), by the control thread or by a handler   *)
(* on a reader thread: under the interface lock, close the handle, make a  *)
(* new hid.device and open it.                                             *)
(***************************************************************************)
StopListening ==
    /\ Idle(Ctl)
    /\ nstops < MaxStops
    /\ call' = [call EXCEPT ![Ctl] = [op |-> "stop_listening", at |-> "lock", arg |-> << >>]]
    /\ nstops' = nstops + 1
    /\ UNCHANGED << ctorVars, devVars, sessVars, rdVars, stopped, closed_under, removed, lights_done,
                    prev_state, nreads, nregs, nlights >>

At(t, op, at) == call[t].op = op /\ call[t].at = at
Goto(t, at) == call' = [call EXCEPT ![t].at = at]

\* The call of thread t is over.
Return(t) == call' = [call EXCEPT ![t] = NoCall]

\* with self.__interface_lock:
StopLock(t) ==
    /\ At(t, "stop_listening", "lock")
    /\ ilock = NoThread
    /\ ilock' = t
    /\ Goto(t, "close")
    /\ UNCHANGED << ctorVars, interface, handles, last_write, nwrites, sessVars, rdVars, histVars >>

\* self.__interface.close()
StopClose(t) ==
    /\ At(t, "stop_listening", "close")
    /\ handles' = [handles EXCEPT ![interface] = "closed"]
    /\ closed_under' = closed_under \cup
                          {r \in Readers : pc[r] = "reading" /\ loc[r].h = interface}
    /\ Goto(t, "new")
    /\ UNCHANGED << ctorVars, interface, ilock, last_write, nwrites, sessVars, rdVars,
                    stopped, removed, lights_done, prev_state,
                    nreads, nregs, nstops, nlights >>

\* self.__interface = hid.device()
StopNew(t) ==
    /\ At(t, "stop_listening", "new")
    /\ handles' = Append(handles, "new")
    /\ interface' = Len(handles) + 1
    /\ Goto(t, "open")
    /\ UNCHANGED << ctorVars, ilock, last_write, nwrites, sessVars, rdVars, histVars >>

\* self.__interface.open_path(self.path)
StopOpen(t) ==
    /\ At(t, "stop_listening", "open")
    /\ handles' = [handles EXCEPT ![interface] = "open"]
    /\ Goto(t, "unlock")
    /\ UNCHANGED << ctorVars, interface, ilock, last_write, nwrites, sessVars, rdVars, histVars >>

\* open_path raises OSError: the lock is released and stop_listening raises,
\* with self.__interface a device that is not open.  In a handler on a
\* reader thread the OSError reaches the except clause of the loop.
StopOpenFails(t) ==
    /\ At(t, "stop_listening", "open")
    /\ ilock' = NoThread
    /\ Return(t)
    /\ pc' = IF t \in Readers THEN [pc EXCEPT ![t] = "done"] ELSE pc
    /\ loc' = IF t \in Readers THEN [loc EXCEPT ![t] = NoLoc] ELSE loc
    /\ UNCHANGED << ctorVars, interface, handles, last_write, nwrites, sessVars, fired, histVars >>

\* end of the with block; stop_listening returns
StopUnlock(t) ==
    /\ At(t, "stop_listening", "unlock")
    /\ ilock' = NoThread
    /\ Return(t)
    /\ stopped' = TRUE
    /\ UNCHANGED << ctorVars, interface, handles, last_write, nwrites, sessVars, rdVars,
                    removed, lights_done, prev_state, closed_under,
                    nreads, nregs, nstops, nlights >>

(***************************************************************************)
(* Light control (lines 278-297).  set_lights stores the list, computes    *)
(* the command from it, and writes under the interface lock.  The write    *)
(* can fail (OSError); the with block releases the lock on the way out.    *)
(***************************************************************************)
LightInputs == [1..NumBuzzers -> BOOLEAN]

\* What a light-control call finds when it begins, and for set_light its
\* (buzzer, light); kept with the call to state what the call has changed.
Pre(target) == [lights |-> lights, nwrites |-> nwrites, target |-> target]

BeginLights(op, arg) ==
    /\ Idle(Ctl)
    /\ nlights < MaxLightCalls
    /\ call' = [call EXCEPT ![Ctl] = [op |-> op, at |-> "store", arg |-> arg, pre |-> Pre(<< >>)]]
    /\ nlights' = nlights + 1
    /\ lights_done' = NoCall
    /\ UNCHANGED << ctorVars, devVars, sessVars, rdVars, stopped, closed_under, removed, prev_state, nreads, nregs, nstops >>

\* set_lights(lights)
SetLights(l) == BeginLights("set_lights", l)

\* set_lights_on: self.set_lights(4 * [True])
SetLightsOn == BeginLights("set_lights_on", AllLights(TRUE))

\* set_lights_off: self.set_lights(4 * [False])
SetLightsOff == BeginLights("set_lights_off", AllLights(FALSE))

\* set_light(buzzer, light) (lines 286-289)
LightIndices == 0..(NumBuzzers - 1)

SetLight(buzzer, light) ==
    /\ Idle(Ctl)
    /\ nlights < MaxLightCalls
    /\ call' = [call EXCEPT ![Ctl] = [op |-> "set_light", at |-> "mutate",
                                      arg |-> << buzzer, light >>,
                                      pre |-> Pre(<< buzzer, light >>)]]
    /\ nlights' = nlights + 1
    /\ lights_done' = NoCall
    /\ UNCHANGED << ctorVars, devVars, sessVars, rdVars, stopped, closed_under, removed, prev_state, nreads, nregs, nstops >>

\* A variant that builds a command for the one light alone.
SetElementAlone(l, buzzer, light) ==
    [i \in 1..Len(l) |-> IF i = buzzer + 1 THEN light ELSE FALSE]

\* self.__lights[buzzer] = light
SetElement(l, buzzer, light) == [l EXCEPT ![buzzer + 1] = light]

\* self.__lights[buzzer] = light; self.set_lights(self.__lights)
LightMutate(t) ==
    /\ At(t, "set_light", "mutate")
    /\ lights' = SetElement(lights, call[t].arg[1], call[t].arg[2])
    /\ call' = [call EXCEPT ![t].at = "store", ![t].arg = lights']
    /\ UNCHANGED << ctorVars, devVars, state, handlers, thread, rdVars, histVars >>

LightOps == {"set_lights", "set_lights_on", "set_lights_off", "set_light"}
InLights(t, at) == call[t].op \in LightOps /\ call[t].at = at

\* self.__lights = lights; binLights = [...]
LightsStore(t) ==
    /\ InLights(t, "store")
    /\ lights' = call[t].arg
    /\ Goto(t, "lock")
    /\ UNCHANGED << ctorVars, devVars, state, handlers, thread, rdVars, histVars >>

\* A variant that goes on to the write without waiting for the lock.
LightsNoLock(t) ==
    /\ InLights(t, "lock")
    /\ Goto(t, "write")
    /\ UNCHANGED << ctorVars, devVars, sessVars, rdVars, histVars >>

\* with self.__interface_lock:
LightsLock(t) ==
    /\ InLights(t, "lock")
    /\ ilock = NoThread
    /\ ilock' = t
    /\ Goto(t, "write")
    /\ UNCHANGED << ctorVars, interface, handles, last_write, nwrites, sessVars, rdVars, histVars >>

\* self.__interface.write([0x0, 0x0, *binLights, 0x0, 0x0])
LightsWrite(t) ==
    /\ InLights(t, "write")
    /\ last_write' = [h |-> interface, data |-> LightCommand(call[t].arg)]
    /\ nwrites' = nwrites + 1
    /\ Goto(t, "unlock")
    /\ UNCHANGED << ctorVars, interface, handles, ilock, sessVars, rdVars, histVars >>

\* the write raises OSError: the lock is released and the call raises
LightsWriteFails(t) ==
    /\ InLights(t, "write")
    /\ ilock' = NoThread
    /\ Return(t)
    /\ lights_done' = [call[t] EXCEPT !.at = "raised"]
    /\ pc' = IF t \in Readers THEN [pc EXCEPT ![t] = "done"] ELSE pc
    /\ loc' = IF t \in Readers THEN [loc EXCEPT ![t] = NoLoc] ELSE loc
    /\ UNCHANGED << ctorVars, interface, handles, last_write, nwrites, sessVars, fired,
                    stopped, closed_under, removed, prev_state, nreads, nregs, nstops, nlights >>

\* end of the with block; set_lights returns
LightsUnlock(t) ==
    /\ InLights(t, "unlock")
    /\ ilock' = NoThread
    /\ Return(t)
    /\ lights_done' = [call[t] EXCEPT !.at = "returned"]
    /\ UNCHANGED << ctorVars, interface, handles, last_write, nwrites, sessVars, rdVars,
                    stopped, closed_under, removed, prev_state, nreads, nregs, nstops, nlights >>

\* get_lights_state (lines 87-89)
get_lights_state == lights

\* get_buttons_state (lines 77-85)
get_buttons_state == state

(***************************************************************************)
(* __listen_loop (lines 191-205).  The reader evaluates self.__interface   *)
(* and blocks in read(64) on that handle, without the interface lock.  A   *)
(* read on a handle that is not open fails with the OSError that ends the  *)
(* loop (line 204); a read on an open handle returns a report.             *)
(***************************************************************************)
\* data = self.__interface.read(64): the attribute is evaluated, the read begins
LoopRead(r) ==
    /\ pc[r] = "loop"
    /\ pc' = [pc EXCEPT ![r] = "reading"]
    /\ loc' = [loc EXCEPT ![r] = [NoLoc EXCEPT !.h = interface]]
    /\ fired' = [fired EXCEPT ![r] = << >>]
    /\ UNCHANGED << ctorVars, devVars, sessVars, call, histVars >>

\* the read returns data; new_state = BuzzerSet.__decode_state(data)
ReadReturns(r, data) ==
    /\ pc[r] = "reading"
    /\ handles[loc[r].h] = "open"
    /\ nreads < MaxReports
    /\ nreads' = nreads + 1
    /\ IF DecodeRaises(data)
       THEN /\ pc' = [pc EXCEPT ![r] = "crashed"]
            /\ loc' = [loc EXCEPT ![r] = NoLoc]
       ELSE /\ pc' = [pc EXCEPT ![r] = "handle"]
            /\ loc' = [loc EXCEPT ![r].new_state = decode_state(data)]
    /\ UNCHANGED << ctorVars, devVars, sessVars, fired, call,
                    stopped, closed_under, removed, lights_done, prev_state, nregs, nstops, nlights >>

\* new_state = BuzzerSet.__decode_state(data), for the data a read has
\* returned: the decoded grid, or the IndexError of a short report, which
\* is no OSError: nothing catches it and the thread ends.
Decode(r) ==
    /\ pc[r] = "decode"
    /\ IF DecodeRaises(loc[r].data)
       THEN /\ pc' = [pc EXCEPT ![r] = "crashed"]
            /\ loc' = [loc EXCEPT ![r] = NoLoc]
       ELSE /\ pc' = [pc EXCEPT ![r] = "handle"]
            /\ loc' = [loc EXCEPT ![r].new_state = decode_state(loc[r].data)]
    /\ UNCHANGED << ctorVars, devVars, sessVars, fired, call, histVars >>

\* A variant that goes on with the loop: except OSError: continue
ReadFailsRetry(r) ==
    /\ pc[r] = "reading"
    /\ handles[loc[r].h] # "open"
    /\ pc' = [pc EXCEPT ![r] = "loop"]
    /\ loc' = [loc EXCEPT ![r] = NoLoc]
    /\ UNCHANGED << ctorVars, devVars, sessVars, fired, call, histVars >>

\* the read raises OSError: except OSError: break
ReadFails(r) ==
    /\ pc[r] = "reading"
    /\ handles[loc[r].h] # "open"
    /\ pc' = [pc EXCEPT ![r] = "done"]
    /\ loc' = [loc EXCEPT ![r] = NoLoc]
    /\ UNCHANGED << ctorVars, devVars, sessVars, fired, call, histVars >>

(***************************************************************************)
(* __handle_event (lines 242-275).                                         *)
(***************************************************************************)
\* old_state = self.__state
HandleOld(r) ==
    /\ pc[r] = "handle"
    /\ loc' = [loc EXCEPT ![r].old_state = state]
    /\ pc' = [pc EXCEPT ![r] = "update"]
    /\ UNCHANGED << ctorVars, devVars, sessVars, fired, call, histVars >>

\* A variant that tests the buzzer index instead of the button index.
IsBuzzByBuzzer(cell) == cell[1] = 0

\* line 268: if button == 0
IsBuzz(cell) == cell[2] = 0

\* Where the dispatch goes when the loops over the down cells are over.
AfterDowns(l) ==
    IF Len(l.button_ups) > 0
    THEN [pc |-> "on_button_up", cell |-> 1]
    ELSE [pc |-> "loop", cell |-> l.cell]

\* A variant that runs the loop over the up cells before the one over the
\* down cells.
AfterPhaseUpsFirst(p, l) ==
    IF p = "on_change"
    THEN IF Len(l.button_ups) > 0 THEN [pc |-> "on_button_up", cell |-> 1]
         ELSE IF Len(l.button_downs) > 0 THEN [pc |-> "on_button_down", cell |-> 1]
         ELSE [pc |-> "loop", cell |-> l.cell]
    ELSE IF p = "on_button_up"
    THEN IF l.cell < Len(l.button_ups) THEN [pc |-> "on_button_up", cell |-> l.cell + 1]
         ELSE IF Len(l.button_downs) > 0 THEN [pc |-> "on_button_down", cell |-> 1]
         ELSE [pc |-> "loop", cell |-> l.cell]
    ELSE IF p = "on_button_down" /\ IsBuzz(l.button_downs[l.cell])
    THEN [pc |-> "on_buzz", cell |-> l.cell]
    ELSE IF l.cell < Len(l.button_downs)
    THEN [pc |-> "on_button_down", cell |-> l.cell + 1]
    ELSE [pc |-> "loop", cell |-> l.cell]

\* Where the dispatch goes when the iterator of phase p is exhausted.
AfterPhase(p, l) ==
    IF p = "on_change"
    THEN IF Len(l.button_downs) > 0
         THEN [pc |-> "on_button_down", cell |-> 1]
         ELSE AfterDowns(l)
    ELSE IF p = "on_button_down" /\ IsBuzz(l.button_downs[l.cell])
    THEN [pc |-> "on_buzz", cell |-> l.cell]
    ELSE IF p \in {"on_button_down", "on_buzz"}
    THEN IF l.cell < Len(l.button_downs)
         THEN [pc |-> "on_button_down", cell |-> l.cell + 1]
         ELSE AfterDowns(l)
    ELSE IF l.cell < Len(l.button_ups)
         THEN [pc |-> "on_button_up", cell |-> l.cell + 1]
         ELSE [pc |-> "loop", cell |-> l.cell]

IterFor(p) == IF p \in KindSet THEN NewIter(handlers[p]) ELSE NoIter

\* with self.__stateLock: self.__state = new_state; the changed cells;
\* return when nothing changed, else begin the loop over on_change
HandleUpdate(r) ==
    /\ pc[r] = "update"
    /\ state' = loc[r].new_state
    /\ LET downs == ButtonDowns(loc[r].new_state, loc[r].old_state)
           ups == ButtonUps(loc[r].new_state, loc[r].old_state)
       IN IF NoChange(downs, ups)
          THEN /\ pc' = [pc EXCEPT ![r] = "loop"]
               /\ loc' = [loc EXCEPT ![r].button_downs = downs, ![r].button_ups = ups]
          ELSE /\ pc' = [pc EXCEPT ![r] = "on_change"]
               /\ loc' = [loc EXCEPT ![r].button_downs = downs, ![r].button_ups = ups,
                                     ![r].it = NewIter(handlers["on_change"])]
    /\ prev_state' = state
    /\ UNCHANGED << ctorVars, devVars, lights, handlers, thread, fired, call,
                    stopped, closed_under, removed, lights_done, nreads, nregs, nstops, nlights >>

\* The dict a reader iterates over, and the result of next() on its iterator.
IterDict(r) == IF loc[r].it.ref = "attr" THEN handlers[pc[r]] ELSE loc[r].it.obj
Outcome(r) == IterOutcome(IterDict(r), loc[r].it)
Iterating(r) == pc[r] \in KindSet /\ Idle(r)

\* The arguments a handler of phase p is called with (after the session).
Args(p, l) ==
    IF p = "on_change" THEN << >>
    ELSE IF p = "on_buzz" THEN << l.button_downs[l.cell][1] >>
    ELSE IF p = "on_button_down" THEN l.button_downs[l.cell]
    ELSE l.button_ups[l.cell]

\* One turn of a for loop over a registry: next() on the iterator
\*   raises RuntimeError: nothing catches it, the thread ends;
\*   or ends the loop: on to the next loop, or back to the read;
\*   or yields the next handler, which is called: event(self, ...).
Dispatch(r) ==
    /\ Iterating(r)
    /\ CASE Outcome(r) = "error" ->
              /\ pc' = [pc EXCEPT ![r] = "crashed"]
              /\ loc' = [loc EXCEPT ![r] = NoLoc]
              /\ UNCHANGED << handlers, removed, call, nstops, nlights, lights_done, fired >>
         [] Outcome(r) = "stop" ->
              LET n == AfterPhase(pc[r], loc[r]) IN
                /\ pc' = [pc EXCEPT ![r] = n.pc]
                /\ loc' = [loc EXCEPT ![r].cell = n.cell, ![r].it = IterFor(n.pc)]
                /\ UNCHANGED << handlers, removed, call, nstops, nlights, lights_done, fired >>
         [] OTHER ->
              LET k == NextLive(IterDict(r), loc[r].it.pos)
                  e == IterDict(r)[k]
              IN /\ fired' = [fired EXCEPT ![r] = Append(@,
                                 [kind |-> pc[r], label |-> e.label, handler |-> e.handler,
                                  args |-> Args(pc[r], loc[r]),
                                  seen |-> IF e.handler = "get" THEN get_buttons_state ELSE << >>])]
                 /\ IF e.handler = "raise"
                    THEN \* the handler raises: nothing catches it, the thread ends
                         /\ pc' = [pc EXCEPT ![r] = "crashed"]
                         /\ loc' = [loc EXCEPT ![r] = NoLoc]
                    ELSE /\ pc' = pc
                         /\ loc' = [loc EXCEPT ![r].it.pos = k + 1, ![r].it.len = @ - 1]
                 /\ CASE e.handler = "rm" ->
                           \* the handler calls remove_handler(its label)
                           /\ handlers' = RemoveFrom(handlers, e.label)
                           /\ removed' = Removed(e.label)
                           /\ UNCHANGED << call, nstops, nlights, lights_done >>
                      [] e.handler = "stop" /\ nstops < MaxStops ->
                           \* the handler calls stop_listening()
                           /\ call' = [call EXCEPT ![r] =
                                         [op |-> "stop_listening", at |-> "lock", arg |-> << >>]]
                           /\ nstops' = nstops + 1
                           /\ UNCHANGED << handlers, removed, nlights, lights_done >>
                      [] e.handler = "lights" /\ nlights < MaxLightCalls ->
                           \* the handler calls set_lights_on()
                           /\ call' = [call EXCEPT ![r] =
                                         [op |-> "set_lights_on", at |-> "store",
                                          arg |-> AllLights(TRUE), pre |-> Pre(<< >>)]]
                           /\ nlights' = nlights + 1
                           /\ lights_done' = NoCall
                           /\ UNCHANGED << handlers, removed, nstops >>
                      [] OTHER ->
                           \* "obs", and "get": the handler calls get_buttons_state()
                           UNCHANGED << handlers, removed, call, nstops, nlights, lights_done >>
    /\ UNCHANGED << ctorVars, devVars, state, lights, thread,
                    stopped, closed_under, prev_state, nreads, nregs >>

(***************************************************************************)
(* Construction, BuzzerSet(path): __new__ (lines 35-47) and then __init__  *)
(* on what __new__ returned (lines 49-70).  A calling thread can be        *)
(* switched out between any two statements.                                *)
(***************************************************************************)

\* super().__new__(cls): an instance without attributes of its own, so that
\* __initialised reads the class attribute, False.
NewObject ==
    [initialised |-> FALSE, attrs |-> FALSE, interface |-> "none",
     lights |-> AllLights(FALSE), state |-> AllFalse,
     handlers |-> [k \in KindSet |-> EmptyDict]]

InFlight(c) == ctor[c].at \notin {"idle", "returned", "raised"}

\* A variant of the guard of __init__ that never finds the flag set.
NeverInitialised(o) == FALSE

\* if self.__initialised (line 50)
Initialised(o) == objects[o].initialised

\* What a caller can rely on: handle, locks, state and registries are there.
ObjComplete(o) ==
    objects[o].initialised /\ objects[o].attrs /\ objects[o].interface = "open"

Construct(c, p) ==
    /\ ~InFlight(c)
    /\ ncalls < MaxCalls
    /\ ctor' = [ctor EXCEPT ![c] = [at |-> "new", path |-> p, obj |-> NoObject, found |-> FALSE]]
    /\ ncalls' = ncalls + 1
    /\ UNCHANGED << runVars, existing_buzzer_sets, objects, opens, results >>

\* lines 41-42: if path in __existing_buzzer_sets: return the instance
NewLookup(c) ==
    /\ ctor[c].at = "new"
    /\ ctor' = [ctor EXCEPT ![c] =
                  IF existing_buzzer_sets[ctor[c].path] # NoObject
                  THEN [@ EXCEPT !.at = "init", !.found = TRUE,
                                 !.obj = existing_buzzer_sets[ctor[c].path]]
                  ELSE [@ EXCEPT !.at = "create"]]
    /\ UNCHANGED << runVars, existing_buzzer_sets, objects, opens, results, ncalls >>

\* line 45: instance = super(BuzzerSet, cls).__new__(cls)
NewCreate(c) ==
    /\ ctor[c].at = "create"
    /\ objects' = Append(objects, NewObject)
    /\ ctor' = [ctor EXCEPT ![c] = [@ EXCEPT !.at = "register", !.obj = Len(objects) + 1]]
    /\ UNCHANGED << runVars, existing_buzzer_sets, opens, results, ncalls >>

\* lines 46-47: __existing_buzzer_sets[path] = instance; return instance
NewRegister(c) ==
    /\ ctor[c].at = "register"
    /\ existing_buzzer_sets' = [existing_buzzer_sets EXCEPT ![ctor[c].path] = ctor[c].obj]
    /\ ctor' = [ctor EXCEPT ![c] = [@ EXCEPT !.at = "init"]]
    /\ UNCHANGED << runVars, objects, opens, results, ncalls >>

Result(c) == [path |-> ctor[c].path, obj |-> ctor[c].obj, complete |-> ObjComplete(ctor[c].obj)]

\* lines 50-51: if self.__initialised: return
InitCheck(c) ==
    /\ ctor[c].at = "init"
    /\ IF Initialised(ctor[c].obj)
       THEN /\ ctor' = [ctor EXCEPT ![c] = [@ EXCEPT !.at = "returned"]]
            /\ results' = results \cup {Result(c)}
       ELSE /\ ctor' = [ctor EXCEPT ![c] = [@ EXCEPT !.at = "flag"]]
            /\ UNCHANGED results
    /\ UNCHANGED << runVars, existing_buzzer_sets, objects, opens, ncalls >>

\* line 52: self.__initialised = True
InitFlag(c) ==
    /\ ctor[c].at = "flag"
    /\ objects' = [objects EXCEPT ![ctor[c].obj] = [@ EXCEPT !.initialised = TRUE]]
    /\ ctor' = [ctor EXCEPT ![c] = [@ EXCEPT !.at = "attrs"]]
    /\ UNCHANGED << runVars, existing_buzzer_sets, opens, results, ncalls >>

\* lines 53-65: path, label, lights, state lock, state, the four registries,
\* the interface lock
InitAttrs(c) ==
    /\ ctor[c].at = "attrs"
    /\ objects' = [objects EXCEPT ![ctor[c].obj] =
                     [@ EXCEPT !.attrs = TRUE, !.lights = AllLights(FALSE),
                               !.state = AllFalse,
                               !.handlers = [k \in KindSet |-> EmptyDict]]]
    /\ ctor' = [ctor EXCEPT ![c] = [@ EXCEPT !.at = "open"]]
    /\ UNCHANGED << runVars, existing_buzzer_sets, opens, results, ncalls >>

\* lines 66-68: self.__interface = hid.device(); open_path(self.path)
InitOpen(c) ==
    /\ ctor[c].at = "open"
    /\ objects' = [objects EXCEPT ![ctor[c].obj] = [@ EXCEPT !.interface = "open"]]
    /\ opens' = [opens EXCEPT ![ctor[c].path] = @ + 1]
    /\ ctor' = [ctor EXCEPT ![c] = [@ EXCEPT !.at = "lights_off"]]
    /\ UNCHANGED << runVars, existing_buzzer_sets, results, ncalls >>

\* open_path raises (device gone, or already opened): the call raises and
\* the instance is left with a device object that is not open.
InitOpenFails(c) ==
    /\ ctor[c].at = "open"
    /\ objects' = [objects EXCEPT ![ctor[c].obj] = [@ EXCEPT !.interface = "new"]]
    /\ ctor' = [ctor EXCEPT ![c] = [@ EXCEPT !.at = "raised"]]
    /\ UNCHANGED << runVars, existing_buzzer_sets, opens, results, ncalls >>

\* line 69: self.set_lights_off(); the write can raise
InitLightsOff(c) ==
    /\ ctor[c].at = "lights_off"
    /\ objects' = [objects EXCEPT ![ctor[c].obj] = [@ EXCEPT !.lights = AllLights(FALSE)]]
    /\ \E ok \in BOOLEAN :
         IF ok
         THEN /\ ctor' = [ctor EXCEPT ![c] = [@ EXCEPT !.at = "returned"]]
              /\ results' = results \cup {Result(c)}
         ELSE /\ ctor' = [ctor EXCEPT ![c] = [@ EXCEPT !.at = "raised"]]
              /\ UNCHANGED results
    /\ UNCHANGED << runVars, existing_buzzer_sets, opens, ncalls >>

\* The application uses a session that a call has returned.
Returned(o) == \E x \in results : x.obj = o /\ objects[o].attrs

\* set_lights_on (lines 291-293)
ObjLightsOn(o) ==
    /\ Returned(o)
    /\ objects' = [objects EXCEPT ![o] = [@ EXCEPT !.lights = AllLights(TRUE)]]
    /\ UNCHANGED << runVars, existing_buzzer_sets, opens, ctor, results, ncalls >>

\* on_change(handler, "a") (lines 92-107)
ObjOnChange(o) ==
    /\ Returned(o)
    /\ objects' = [objects EXCEPT ![o] =
                     [@ EXCEPT !.handlers["on_change"] = DictSet(@, "a", "obs")]]
    /\ UNCHANGED << runVars, existing_buzzer_sets, opens, ctor, results, ncalls >>

\* the read loop takes a report (line 258)
ObjReport(o) ==
    /\ Returned(o)
    /\ objects' = [objects EXCEPT ![o] = [@ EXCEPT !.state = decode_state(ReportA)]]
    /\ UNCHANGED << runVars, existing_buzzer_sets, opens, ctor, results, ncalls >>

(***************************************************************************)
(* The session under every interleaving of the control thread, the reader  *)
(* threads and the handlers, for an application that registers a change    *)
(* observer, a button-down observer and a buzz handler that stops the      *)
(* listening, and starts and stops the listening as it likes.              *)
(***************************************************************************)
Registrations ==
    { << "on_change", "obs", "a" >>,
      << "on_button_down", "obs", None >>,
      << "on_buzz", "stop", None >> }

ControlNext ==
    \/ \E x \in Registrations : Register(x[1], x[2], x[3])
    \/ StartListening
    \/ StopListening

StopNext(t) ==
    \/ StopLock(t)
    \/ StopClose(t)
    \/ StopNew(t)
    \/ StopOpen(t)
    \/ StopUnlock(t)

LightsNext(t) ==
    \/ LightsStore(t)
    \/ LightsLock(t)
    \/ LightsWrite(t)
    \/ LightsWriteFails(t)
    \/ LightsUnlock(t)

ReaderNext(r, reports) ==
    \/ LoopRead(r)
    \/ \E data \in reports : ReadReturns(r, data)
    \/ HandleOld(r)
    \/ HandleUpdate(r)
    \/ Dispatch(r)

\* The reports of the runs with several threads: one button down and up.
ThreadReports == {Report0, ReportA, ReportN}

Next ==
    \/ ControlNext
    \/ \E t \in Threads : StopNext(t)
    \/ \E r \in Readers : ReaderNext(r, ThreadReports)
    \/ \E r \in Readers : ReadFails(r)

Spec == Init /\ [][Next]_vars

(***************************************************************************)
(* The same, with the scheduling of threads: a reader thread that can go   *)
(* on does, and so does a thread inside stop_listening.                    *)
(***************************************************************************)
Fairness ==
    /\ \A r \in Readers : WF_vars(ReaderNext(r, ThreadReports) \/ ReadFails(r))
    /\ \A t \in Threads : WF_vars(StopNext(t))

FairSpec == Spec /\ Fairness

(***************************************************************************)
(* The session as the application of the examples uses it: one control     *)
(* thread, handlers that only observe, one read loop, and the registries   *)
(* changed only while no report is being processed (the read loop is       *)
(* blocked in its read, or is not running).                                *)
(***************************************************************************)
Quiet == \A r \in Readers : pc[r] \in {"unborn", "reading", "done", "crashed"}

ObserverNext ==
    \/ Quiet /\ \E k \in KindSet, l \in LabelInputs : Register(k, "obs", l)
    \/ Quiet /\ \E l \in Labels : RemoveHandler(l)
    \/ Quiet /\ ClearHandlers
    \/ thread = NoThread /\ StartListening

NextObserver ==
    \/ ObserverNext
    \/ \E r \in Readers : ReaderNext(r, Reports)

SpecObserver == Init /\ [][NextObserver]_vars

(***************************************************************************)
(* The control thread registers a change observer and then starts and      *)
(* stops the listening as it likes; the device reports a buzz.             *)
(***************************************************************************)
StopControl ==
    \/ thread = NoThread /\ Register("on_change", "obs", "a")
    \/ StartListening
    \/ StopListening

StopReports == {ReportA}

NextStop ==
    \/ StopControl
    \/ StopNext(Ctl)
    \/ \E r \in Readers : ReaderNext(r, StopReports)
    \/ \E r \in Readers : ReadFails(r)

SpecStop == Init /\ [][NextStop]_vars

(***************************************************************************)
(* One read loop and an application that registers observers and handlers  *)
(* that remove themselves while no report is being processed, and calls    *)
(* remove_handler at any time.                                             *)
(***************************************************************************)
RemoveLabels == {EffectiveLabel(l, h) : l \in LabelInputs, h \in {"obs", "rm"}}

RemoveControl ==
    \/ Quiet /\ \E k \in KindSet, h \in {"obs", "rm"}, l \in LabelInputs : Register(k, h, l)
    \/ \E l \in RemoveLabels : RemoveHandler(l)
    \/ thread = NoThread /\ StartListening

NextRemove ==
    \/ RemoveControl
    \/ \E r \in Readers : ReaderNext(r, Reports)

SpecRemove == Init /\ [][NextRemove]_vars

(***************************************************************************)
(* Light commands of two threads against stop_listening: the control       *)
(* thread switches the lights off and stops the listening while a change   *)
(* handler on the thread of the one read loop switches them on.  The       *)
(* device takes every write and every open.                                *)
(***************************************************************************)
LightsOkNext(t) ==
    \/ LightsStore(t)
    \/ LightsLock(t)
    \/ LightsWrite(t)
    \/ LightsUnlock(t)

RaceControl ==
    \/ thread = NoThread /\ Register("on_change", "lights", "a")
    \/ thread = NoThread /\ StartListening
    \/ StopListening
    \/ SetLightsOff

NextLightsRace ==
    \/ RaceControl
    \/ StopNext(Ctl)
    \/ \E t \in Threads : LightsOkNext(t)
    \/ \E r \in Readers : ReaderNext(r, StopReports)
    \/ \E r \in Readers : ReadFails(r)

SpecLightsRace == Init /\ [][NextLightsRace]_vars

(***************************************************************************)
(* The decoder on the reports a read can return: the read loop of a        *)
(* session with one change observer has read a report, of 0 to 6 bytes,    *)
(* and is about to decode it; later it reads a buzz.                       *)
(***************************************************************************)
ByteSamples == {0, 1, 2, 4, 8, 15, 16, 32, 64, 128, 255}

LongInputs ==
    {head \o << b2, b3, b4 >> \o tail :
        head \in {<< 0, 0 >>, << 127, 255 >>}, tail \in {<< >>, << 255 >>},
        b2 \in ByteSamples, b3 \in ByteSamples, b4 \in ByteSamples}

ShortInputs == {<< >>, << 0 >>, << 0, 0 >>, << 0, 0, 1 >>, << 0, 0, 1, 0 >>}

DecodeInputs == LongInputs \cup ShortInputs

InitDecode ==
    /\ interface = 1
    /\ handles = << "open" >>
    /\ ilock = NoThread
    /\ last_write = [h |-> 1, data |-> LightCommand(AllLights(FALSE))]
    /\ nwrites = 1
    /\ state = AllFalse
    /\ lights = AllLights(FALSE)
    /\ handlers = [k \in KindSet |->
                     IF k = "on_change" THEN DictSet(EmptyDict, "a", "obs") ELSE EmptyDict]
    /\ thread = ReaderNames[1]
    /\ pc = [r \in Readers |-> IF r = ReaderNames[1] THEN "decode" ELSE "unborn"]
    /\ \E data \in DecodeInputs :
         loc = [r \in Readers |->
                  IF r = ReaderNames[1] THEN [NoLoc EXCEPT !.h = 1, !.data = data] ELSE NoLoc]
    /\ call = [t \in Threads |-> NoCall]
    /\ fired = [r \in Readers |-> << >>]
    /\ stopped = FALSE
    /\ removed = {}
    /\ lights_done = NoCall
    /\ prev_state = AllFalse
    /\ closed_under = {}
    /\ nreads = 1
    /\ nregs = 1
    /\ nstops = 0
    /\ nlights = 0
    /\ existing_buzzer_sets = [p \in Paths |-> NoObject]
    /\ objects = << >>
    /\ opens = [p \in Paths |-> 0]
    /\ ctor = [c \in Callers |-> NoCtor]
    /\ results = {}
    /\ ncalls = 0

NextDecode ==
    \/ \E r \in Readers : Decode(r)
    \/ \E r \in Readers : ReaderNext(r, StopReports)

SpecDecode == InitDecode /\ [][NextDecode]_vars

(***************************************************************************)
(* Handlers that ask the session for the Button State: the application     *)
(* registers such a change handler and then starts the listening, once or  *)
(* more often.                                                             *)
(***************************************************************************)
GetControl ==
    \/ thread = NoThread /\ Register("on_change", "get", "a")
    \/ StartListening

NextGet ==
    \/ GetControl
    \/ \E r \in Readers : ReaderNext(r, ThreadReports)

SpecGet == Init /\ [][NextGet]_vars

(***************************************************************************)
(* Handlers that fail, on the thread of the one read loop: a change        *)
(* handler that raises, a buzz handler that calls stop_listening, whose    *)
(* open_path can raise, and a button-down handler that calls               *)
(* set_lights_on, whose write can raise.                                   *)
(***************************************************************************)
FailingRegistrations ==
    { << "on_change", "raise", "a" >>,
      << "on_buzz", "stop", None >>,
      << "on_button_down", "lights", None >> }

RaiseControl ==
    \/ thread = NoThread /\ \E x \in FailingRegistrations : Register(x[1], x[2], x[3])
    \/ thread = NoThread /\ StartListening

NextRaise ==
    \/ RaiseControl
    \/ \E r \in Readers : ReaderNext(r, ThreadReports)
    \/ \E r \in Readers : StopNext(r)
    \/ \E r \in Readers : StopOpenFails(r)
    \/ \E r \in Readers : LightsNext(r)

SpecRaise == Init /\ [][NextRaise]_vars

(***************************************************************************)
(* Construction calls, for two device paths, with the sessions in use      *)
(* between the calls.  SpecConstruct: a call begins when no other call is  *)
(* running.  SpecConstructRace: the calls of two threads interleave.       *)
(***************************************************************************)
CtorNext(c) ==
    \/ NewLookup(c)
    \/ NewCreate(c)
    \/ NewRegister(c)
    \/ InitCheck(c)
    \/ InitFlag(c)
    \/ InitAttrs(c)
    \/ InitOpen(c)
    \/ InitOpenFails(c)
    \/ InitLightsOff(c)

UseNext(o) ==
    \/ ObjLightsOn(o)
    \/ ObjOnChange(o)
    \/ ObjReport(o)

NextConstruct ==
    \/ \E c \in Callers, p \in Paths : (\A d \in Callers : ~InFlight(d)) /\ Construct(c, p)
    \/ \E c \in Callers : CtorNext(c)
    \/ \E o \in 1..Len(objects) : UseNext(o)

SpecConstruct == Init /\ [][NextConstruct]_vars

NextConstructRace ==
    \/ \E c \in Callers, p \in Paths : Construct(c, p)
    \/ \E c \in Callers : CtorNext(c)
    \/ \E o \in 1..Len(objects) : UseNext(o)

SpecConstructRace == Init /\ [][NextConstructRace]_vars

(***************************************************************************)
(* The control thread alone: light commands, and the close/reopen of       *)
(* stop_listening between them.                                            *)
(***************************************************************************)
NextLights ==
    \/ \E l \in LightInputs : SetLights(l)
    \/ SetLightsOn
    \/ SetLightsOff
    \/ \E i \in LightIndices, v \in BOOLEAN : SetLight(i, v)
    \/ LightMutate(Ctl)
    \/ StopListening
    \/ LightsNext(Ctl)
    \/ StopNext(Ctl)

SpecLights == Init /\ [][NextLights]_vars

(***************************************************************************)
(* What the properties of the dispatch speak of.                           *)
(***************************************************************************)
Buzzers == 0..(NumBuzzers - 1)
Buttons == 0..(NumButtons - 1)
Cell(g, buzzer, button) == g[buzzer + 1][button + 1]

\* The cell went false -> true, or true -> false, in the last assignment of
\* the stored Button State.
WentDown(buzzer, button) ==
    ~Cell(prev_state, buzzer, button) /\ Cell(state, buzzer, button)
WentUp(buzzer, button) ==
    Cell(prev_state, buzzer, button) /\ ~Cell(state, buzzer, button)
Differs ==
    \E c \in Buzzers, b \in Buttons : Cell(prev_state, c, b) # Cell(state, c, b)

\* How often reader r called the handler registered as label in registry
\* kind with these arguments, for the report it processed last.
Calls(r, kind, label, args) ==
    Cardinality({i \in 1..Len(fired[r]) :
        /\ fired[r][i].kind = kind
        /\ fired[r][i].label = label
        /\ fired[r][i].args = args})

\* Reader r has processed a report and is back at the top of its loop.
Processed(r) == pc[r] = "loop" /\ thread = r /\ nreads > 0

Bool2Nat(b) == IF b THEN 1 ELSE 0

(***************************************************************************)
(* C1: when a read loop has processed a report, every registered change    *)
(* handler has been called once if the decoded grid differs from the       *)
(* Button State stored just before, and no handler of any registry has     *)
(* been called if it does not; every registered button-down handler has    *)
(* been called exactly once for every cell that went false -> true, with   *)
(* (buzzer, button) of that cell, and for no other cell; every registered  *)
(* button-up handler likewise for the cells that went true -> false.       *)
(***************************************************************************)
C1_ObserverInvariant ==
    \A r \in Readers :
        Processed(r) =>
            /\ state = loc[r].new_state
            /\ ~Differs => fired[r] = << >>
            /\ \A l \in DictLabels(handlers["on_change"]) :
                 Calls(r, "on_change", l, << >>) = Bool2Nat(Differs)
            /\ \A l \in DictLabels(handlers["on_button_down"]), c \in Buzzers, b \in Buttons :
                 Calls(r, "on_button_down", l, << c, b >>) = Bool2Nat(WentDown(c, b))
            /\ \A l \in DictLabels(handlers["on_button_up"]), c \in Buzzers, b \in Buttons :
                 Calls(r, "on_button_up", l, << c, b >>) = Bool2Nat(WentUp(c, b))
            /\ \A i \in 1..Len(fired[r]) :
                 fired[r][i].label \in DictLabels(handlers[fired[r][i].kind])

\* A report with cells going down and cells going up has been processed and
\* a change handler and a button-up handler (or a button-down handler) were called.
C1_Witness ==
    \E r \in Readers :
        /\ Processed(r)
        /\ \E c \in Buzzers, b \in Buttons : WentDown(c, b)
        /\ \E c \in Buzzers, b \in Buttons : WentUp(c, b)
        /\ \E i, j \in 1..Len(fired[r]) :
             /\ fired[r][i].kind = "on_change"
             /\ fired[r][j].kind \in {"on_button_up", "on_button_down"}

(***************************************************************************)
(* C9: when a read loop has processed a report, every registered buzz      *)
(* handler has been called exactly once, with the buzzer index, for every  *)
(* buzzer whose button 0 went false -> true, and not otherwise (not for    *)
(* buttons 1..4, not for a release); the button-down handlers have been    *)
(* called for that (buzzer, 0) as well.                                    *)
(***************************************************************************)
C9_BuzzInvariant ==
    \A r \in Readers :
        Processed(r) =>
            /\ \A l \in DictLabels(handlers["on_buzz"]), c \in Buzzers :
                 Calls(r, "on_buzz", l, << c >>) = Bool2Nat(WentDown(c, 0))
            /\ \A i \in 1..Len(fired[r]) :
                 fired[r][i].kind = "on_buzz" =>
                    /\ Len(fired[r][i].args) = 1
                    /\ fired[r][i].args[1] \in Buzzers
                    /\ fired[r][i].label \in DictLabels(handlers["on_buzz"])
            /\ \A l \in DictLabels(handlers["on_button_down"]), c \in Buzzers :
                 WentDown(c, 0) => Calls(r, "on_button_down", l, << c, 0 >>) = 1

\* A report in which a buzz button and a coloured button went down has been
\* processed with a buzz handler and a button-down handler registered.
C9_Witness ==
    \E r \in Readers :
        /\ Processed(r)
        /\ \E c \in Buzzers : WentDown(c, 0)
        /\ \E c \in Buzzers, b \in Buttons \ {0} : WentDown(c, b)
        /\ \E i, j \in 1..Len(fired[r]) :
             /\ fired[r][i].kind = "on_buzz"
             /\ fired[r][j].kind = "on_button_down"

(***************************************************************************)
(* C10: when set_lights([a, b, c, d]) has returned without raising,        *)
(* get_lights_state() is [a, b, c, d] and the last write issued is the 8   *)
(* bytes 0, 0, La, Lb, Lc, Ld, 0, 0 with Lx = 255 for True and 0 for       *)
(* False; set_lights_on and set_lights_off are set_lights of four True     *)
(* and of four False.                                                      *)
(***************************************************************************)
C10_LightRoundTrip ==
    (lights_done.op \in LightOps /\ lights_done.at = "returned") =>
        /\ Len(lights_done.arg) = 4
        /\ lights_done.op = "set_lights_on" => \A i \in 1..4 : lights_done.arg[i]
        /\ lights_done.op = "set_lights_off" => \A i \in 1..4 : ~lights_done.arg[i]
        /\ get_lights_state = lights_done.arg
        /\ Len(last_write.data) = 8
        /\ \A i \in {1, 2, 7, 8} : last_write.data[i] = 0
        /\ \A i \in 1..4 :
             last_write.data[i + 2] = IF lights_done.arg[i] THEN 255 ELSE 0

\* set_lights has returned for a list with lights on and lights off.
C10_Witness ==
    /\ lights_done.op = "set_lights"
    /\ lights_done.at = "returned"
    /\ \E i, j \in 1..4 : lights_done.arg[i] /\ ~lights_done.arg[j]

(***************************************************************************)
(* C2: once stop_listening() has returned, and until start_listening() is  *)
(* called again, no handler of any registry is called.                     *)
(***************************************************************************)
C2_NoHandlerAfterStop ==
    [][stopped => \A r \in Readers : Len(fired'[r]) <= Len(fired[r])]_vars

(***************************************************************************)
(* C3: after stop_listening() the session holds an open handle, and every  *)
(* read loop that is running when a stop_listening() has returned          *)
(* eventually exits.                                                       *)
(***************************************************************************)
C3_LoopExits ==
    /\ [](stopped => handles[interface] = "open")
    /\ \A r \in Readers : (stopped /\ Active(r)) ~> ~Active(r)

(***************************************************************************)
(* C4: a reader that was blocked in a read on the handle when              *)
(* stop_listening closed it does nothing but leave its loop: its read      *)
(* fails, it calls no handler and the step that ends the loop leaves the   *)
(* Button State alone; and a reader in a read never holds the interface    *)
(* lock, so stop_listening does not wait for it.                           *)
(***************************************************************************)
C4_BlockedReadFails ==
    [][\A r \in Readers :
          /\ pc'[r] = "reading" => ilock' # r
          /\ r \in closed_under' =>
                /\ pc'[r] \in {"reading", "done"}
                /\ fired'[r] = << >>
                /\ (pc[r] = "reading" /\ pc'[r] = "done") =>
                      (state' = state /\ prev_state' = prev_state)]_vars

\* A reader that was blocked in the read when the handle was closed has left its loop.
C4_Witness == \E r \in closed_under : pc[r] = "done"

(***************************************************************************)
(* C5: at most one read loop of the session is running.                    *)
(***************************************************************************)
C5_OneLoop == Cardinality({r \in Readers : Active(r)}) <= 1

(***************************************************************************)
(* C8: the callback of a label whose remove_handler has returned is not    *)
(* called any more; and the callbacks that are registered under other      *)
(* labels go on being called: when the read loop is through with a report  *)
(* (back at its read, or ended), every callback that is registered has     *)
(* been called for every change of that report it is registered for.       *)
(***************************************************************************)
Through(r) == pc[r] \in {"loop", "crashed"} /\ thread = r /\ nreads > 0

C8_RemovedOnly ==
    /\ [][\A r \in Readers :
            Len(fired'[r]) > Len(fired[r]) =>
                fired'[r][Len(fired'[r])].label \notin removed]_vars
    /\ [](\A r \in Readers :
            Through(r) =>
               /\ \A l \in DictLabels(handlers["on_change"]) :
                    Differs => Calls(r, "on_change", l, << >>) >= 1
               /\ \A l \in DictLabels(handlers["on_button_down"]), c \in Buzzers, b \in Buttons :
                    WentDown(c, b) => Calls(r, "on_button_down", l, << c, b >>) >= 1
               /\ \A l \in DictLabels(handlers["on_buzz"]), c \in Buzzers :
                    WentDown(c, 0) => Calls(r, "on_buzz", l, << c >>) >= 1
               /\ \A l \in DictLabels(handlers["on_button_up"]), c \in Buzzers, b \in Buttons :
                    WentUp(c, b) => Calls(r, "on_button_up", l, << c, b >>) >= 1)

(***************************************************************************)
(* C6: when construction calls run one after another, two calls that       *)
(* return for the same path return the same instance and calls for         *)
(* different paths return different instances; and a call for a path that  *)
(* has an instance already changes no instance (state, lights, registries, *)
(* handle) and opens nothing.                                              *)
(***************************************************************************)
C6_Singleton ==
    /\ [](\A x, y \in results : (x.path = y.path) <=> (x.obj = y.obj))
    /\ [][\A c \in Callers :
            (InFlight(c) /\ ctor[c].found /\ ctor'[c] # ctor[c]) =>
                (objects' = objects /\ opens' = opens)]_vars

\* A second call has returned a session that was in use (lights on, a
\* handler registered, a button down), and another path has its own session.
C6_Witness ==
    /\ \E c \in Callers :
         /\ ctor[c].at = "returned" /\ ctor[c].found
         /\ objects[ctor[c].obj].lights = AllLights(TRUE)
         /\ objects[ctor[c].obj].state # AllFalse
         /\ DictHas(objects[ctor[c].obj].handlers["on_change"], "a")
    /\ \E x, y \in results : x.path # y.path

(***************************************************************************)
(* C7: when the construction calls of two threads interleave, the calls    *)
(* for one path return the same instance, the path is opened once, and     *)
(* every call returns an instance whose initialisation is complete.        *)
(***************************************************************************)
C7_ConcurrentSafe ==
    /\ \A x, y \in results : x.path = y.path => x.obj = y.obj
    /\ \A p \in Paths : opens[p] <= 1
    /\ \A x \in results : x.complete

(***************************************************************************)
(* C11: set_light(i, v), for i in 0..3, that has returned has set element  *)
(* i of the stored lights to v and left the other three as they were when  *)
(* it was called, and has issued one write, of the 8-byte command for the  *)
(* whole updated list.                                                     *)
(***************************************************************************)
C11_SetLightFrame ==
    (lights_done.op = "set_light" /\ lights_done.at = "returned") =>
        LET i == lights_done.pre.target[1]
            v == lights_done.pre.target[2]
        IN /\ Len(get_lights_state) = NumBuzzers
           /\ get_lights_state[i + 1] = v
           /\ \A j \in LightIndices \ {i} :
                get_lights_state[j + 1] = lights_done.pre.lights[j + 1]
           /\ nwrites = lights_done.pre.nwrites + 1
           /\ Len(last_write.data) = 8
           /\ \A j \in LightIndices :
                last_write.data[j + 3] = IF get_lights_state[j + 1] THEN 255 ELSE 0

\* set_light has switched one light off and left another one on.
C11_Witness ==
    /\ lights_done.op = "set_light"
    /\ lights_done.at = "returned"
    /\ ~lights_done.pre.target[2]
    /\ lights_done.pre.lights[lights_done.pre.target[1] + 1]
    /\ \E j \in LightIndices : get_lights_state[j + 1]

(***************************************************************************)
(* C12: every write of a light command is issued on the handle that is the *)
(* session's current one and is open at that moment: never on a closed     *)
(* handle, never between the close and the reopen of stop_listening.       *)
(***************************************************************************)
C12_WritesOnOpenHandle ==
    [][nwrites' # nwrites =>
         /\ last_write'.h = interface
         /\ handles[last_write'.h] = "open"
         /\ \A t \in Threads : call[t].op = "stop_listening" => ilock # t]_vars

\* A handler's write has gone through while stop_listening of the control
\* thread waits for the lock.
C12_Witness ==
    /\ At(Ctl, "stop_listening", "lock")
    /\ \E r \in Readers : InLights(r, "unlock")

(***************************************************************************)
(* C18: when no light-control call is running any more (all writes having  *)
(* succeeded), the stored lights are those of the last write issued.       *)
(***************************************************************************)
C18_LastWriteWins ==
    (\A t \in Threads : call[t].op \notin LightOps) =>
        LightCommand(get_lights_state) = last_write.data

(***************************************************************************)
(* C13: in the calls a read loop makes for one report, no button-down or   *)
(* buzz handler comes before a change handler and no button-up handler     *)
(* before a button-down or buzz handler; when the first button-down or     *)
(* buzz handler is called every change handler has been called, and when   *)
(* the first button-up handler is called every button-down handler has     *)
(* been called for every down cell; the lists of down and up cells are     *)
(* those of the old and the new grid and stay as they are while the        *)
(* handlers are called.                                                    *)
(***************************************************************************)
Rank(kind) ==
    IF kind = "on_change" THEN 0 ELSE IF kind = "on_button_up" THEN 2 ELSE 1

CellsOf(list) == {list[i] : i \in 1..Len(list)}

C13_FiringOrder ==
    /\ [](\A r \in Readers :
            /\ \A i, j \in 1..Len(fired[r]) :
                 i < j => Rank(fired[r][i].kind) <= Rank(fired[r][j].kind)
            /\ (\E i \in 1..Len(fired[r]) : Rank(fired[r][i].kind) >= 1) =>
                 \A l \in DictLabels(handlers["on_change"]) :
                    Calls(r, "on_change", l, << >>) = 1
            /\ (\E i \in 1..Len(fired[r]) : Rank(fired[r][i].kind) = 2) =>
                 \A l \in DictLabels(handlers["on_button_down"]), c \in Buzzers, b \in Buttons :
                    WentDown(c, b) => Calls(r, "on_button_down", l, << c, b >>) = 1
            /\ pc[r] \in KindSet =>
                 \A c \in Buzzers, b \in Buttons :
                    /\ << c, b >> \in CellsOf(loc[r].button_downs) <=>
                         (Cell(loc[r].new_state, c, b) /\ ~Cell(loc[r].old_state, c, b))
                    /\ << c, b >> \in CellsOf(loc[r].button_ups) <=>
                         (~Cell(loc[r].new_state, c, b) /\ Cell(loc[r].old_state, c, b)))
    /\ [][\A r \in Readers :
            (pc[r] \in KindSet /\ pc'[r] \in KindSet) =>
                /\ loc'[r].button_downs = loc[r].button_downs
                /\ loc'[r].button_ups = loc[r].button_ups]_vars

\* For one report a button-down handler and then a button-up handler were
\* called.
C13_Witness ==
    \E r \in Readers : \E i, j \in 1..Len(fired[r]) :
        /\ i < j
        /\ fired[r][i].kind = "on_button_down"
        /\ fired[r][j].kind = "on_button_up"

(***************************************************************************)
(* C14: for a report of at least 5 bytes the decoder returns 4 rows of 5   *)
(* cells; with bit n of the report bit (n mod 8) of byte 2 + (n div 8),    *)
(* cell (c, 0) is bit 5c and cell (c, k), k in 1..4, is bit 5c + (5 - k);  *)
(* bits 20..23 and the bytes before and after bytes 2..4 make no           *)
(* difference to the grid.                                                 *)
(***************************************************************************)
FieldBit(data, n) == (data[3 + (n \div 8)] \div (2 ^ (n % 8))) % 2 = 1

Decoded(r) == pc[r] \notin {"unborn", "decode", "crashed"} /\ Len(loc[r].data) >= 5

C14_DecodeGrid ==
    \A r \in Readers :
        Decoded(r) =>
            LET data == loc[r].data
                g == loc[r].new_state
            IN /\ Len(g) = 4
               /\ \A c \in Buzzers :
                    /\ Len(g[c + 1]) = 5
                    /\ Cell(g, c, 0) = FieldBit(data, 5 * c)
                    /\ \A k \in 1..4 : Cell(g, c, k) = FieldBit(data, 5 * c + (5 - k))
               /\ \A hi \in 0..15, b \in {0, 255} :
                    decode_state(<< b, 255 - b, data[3], data[4], (data[5] % 16) + 16 * hi,
                                   b, b, b >>) = g

\* A report with bit 1 alone has been decoded: cell (0, 4) alone is true.
C14_Witness ==
    \E r \in Readers :
        /\ pc[r] = "handle"
        /\ loc[r].data = << 0, 0, 2, 0, 0 >>
        /\ \A c \in Buzzers, k \in Buttons :
             Cell(loc[r].new_state, c, k) = (c = 0 /\ k = 4)

(***************************************************************************)
(* C16: a report of fewer than 5 bytes is rejected: when the read loop     *)
(* leaves the decoding of such a report the stored Button State is as it   *)
(* was, no handler has been called, and the loop is back at its read.      *)
(***************************************************************************)
C16_ShortReportRejected ==
    [][\A r \in Readers :
         (pc[r] = "decode" /\ Len(loc[r].data) < 5 /\ pc'[r] # "decode") =>
             /\ state' = state
             /\ fired'[r] = fired[r]
             /\ pc'[r] = "loop"]_vars

(***************************************************************************)
(* C15: a light-control call whose write has failed has raised and has     *)
(* left the stored lights as they were when it was called.                 *)
(***************************************************************************)
C15_FailedWriteKeepsLights ==
    (lights_done.op \in LightOps /\ lights_done.at = "raised") =>
        get_lights_state = lights_done.pre.lights

(***************************************************************************)
(* C17: a read loop does not hold the interface lock while it calls the    *)
(* handlers, and a handler that calls get_buttons_state() gets the grid    *)
(* of the report it is called for.                                         *)
(***************************************************************************)
C17_HandlerSeesNewGrid ==
    \A r \in Readers :
        (pc[r] \in KindSet /\ Idle(r)) =>
            /\ ilock # r
            /\ \A i \in 1..Len(fired[r]) :
                 fired[r][i].handler = "get" => fired[r][i].seen = loc[r].new_state

(***************************************************************************)
(* C19: a read loop ends only out of its read, by the read failing; it     *)
(* does not end while it is calling the handlers, whatever they raise.     *)
(***************************************************************************)
C19_EndsOnlyOnReadFailure ==
    [][\A r \in Readers :
         (Active(r) /\ pc'[r] \in {"done", "crashed"}) =>
             (pc[r] = "reading" /\ Idle(r))]_vars

(***************************************************************************)
(* C20: a construction call that raises leaves no instance registered for  *)
(* its path, and every call that returns returns an instance with an open  *)
(* handle, also after an earlier call for the path has raised.             *)
(***************************************************************************)
C20_FailedOpenNotRegistered ==
    /\ [][\A c \in Callers :
            (ctor[c].at # "raised" /\ ctor'[c].at = "raised") =>
                existing_buzzer_sets'[ctor[c].path] = NoObject]_vars
    /\ [](\A x \in results : objects[x.obj].interface = "open")

====
